---- MODULE Spec2Model ----
(***************************************************************************)
(* Model of the team-balancing engine of src/src/utils/teamPairing.ts:     *)
(* balanceTeams (CoreSplit), findBestTeamBalance (BestOfN) and             *)
(* findRandomizedTeamBalance (RandomizedBestOfN), with their helpers.      *)
(* createMultipleTeamPairs (MultiMatchSplit) and calculateTeamStats (Stats)  *)
(* are modelled too.                                                       *)
(* A call is one run of the state machine: Init draws the caller's player  *)
(* list, one Call action enters an entry point, the loops run one          *)
(* iteration per step, and the Return actions deliver the result.          *)
(***************************************************************************)
EXTENDS Integers, Sequences, FiniteSets, TLC

VARIABLES
    players,          \* the caller's array, as the entry point sees and leaves it
    original,         \* the caller's array as it was before the call
    op,               \* the entry point called
    pc,               \* "idle", "loop" or "done"
    iterations,       \* the iterations parameter
    ratingVariation,  \* the ratingVariation parameter
    i,                \* the loop counter
    bestBalance,      \* bestBalance of the trial loops
    result,           \* the TeamPair returned, if any
    error,            \* the message of the error thrown, if any
    pairCount,        \* the pairCount parameter
    shuffled,         \* createMultipleTeamPairs: the shuffled pool
    pairs,            \* createMultipleTeamPairs: the pairs built so far, returned at the end
    stats,            \* the record calculateTeamStats returned, if any
    minDifference,    \* history: the least ratingDifference balanceTeams returned to the call
    frames            \* two calls in progress at once: the frame of each

vars == <<players, original, op, pc, iterations, ratingVariation, i, bestBalance, result,
          error, pairCount, shuffled, pairs, stats, minDifference, frames>>

\* what createMultipleTeamPairs and calculateTeamStats work with
others == <<pairCount, shuffled, pairs, stats>>

(* ---------------------------- bounds ----------------------------------- *)

\* longest player list handed to balanceTeams directly
MaxPlayers == 5

\* sizes of the player lists handed to the two trial loops
TrialSizes == {0, 1, 2, 3}

\* ratings of the players handed to the two trial loops
TrialRatingValues == {1, 100}

\* largest value of the iterations parameter
MaxIterations == 2

\* ratings the caller's players may carry (in and out of the 1..100 range)
RatingValues == {0, 1, 2, 99, 100}

\* values of the ratingVariation parameter
VariationValues == {0, 1, 2}

\* sizes of the lists whose every reordering is compared with the list itself
PermutedSizes == {2, 3, 4, 5}

\* values of the pairCount parameter
PairCounts == {-1, 0, 1, 2, 3}

\* the pools handed to createMultipleTeamPairs: mixed ratings for the small
\* ones, one rating for the larger ones
MultiMixedSizes == {0, 1, 2, 4}
MultiMixedRatings == {1, 2}
MultiEvenSizes == {3, 5, 6}
MultiEvenRatings == {1}

\* the <<pool size, pairCount>> of the calls of createMultipleTeamPairs that
\* get past its guard with pairCount >= 1
MultiShapes == {<<2, 1>>, <<3, 1>>, <<4, 2>>, <<5, 2>>, <<6, 3>>}

(* ------------------------ program constants ---------------------------- *)

MinPlayers == 2
MinRating == 1
MaxRating == 100
DefaultVariation == 5
PairIterations == 50

InsufficientPlayers == "Need at least 2 players to create teams"

(* ----------------------------- helpers --------------------------------- *)

Names == <<"A", "B", "C", "D", "E", "F", "G", "H">>

\* a Player record
Player(id, rating) == [id |-> id, name |-> Names[id], rating |-> rating]

\* optional values: undefined / null is the empty sequence
Undefined == <<>>

Abs(x) == IF x < 0 THEN -x ELSE x

Min(a, b) == IF a <= b THEN a ELSE b

Max(a, b) == IF a >= b THEN a ELSE b

Front(s) == SubSeq(s, 1, Len(s) - 1)

Last(s) == s[Len(s)]

RECURSIVE SumRatings(_)
SumRatings(ps) == IF ps = <<>> THEN 0 ELSE SumRatings(Front(ps)) + Last(ps).rating

Ids(ps) == {ps[k].id : k \in 1..Len(ps)}

(* --------------------------- balanceTeams ------------------------------ *)

\* variant: the comparator is a.rating - b.rating, the sort is ascending
RECURSIVE InsertByRating_Ascending(_, _)
InsertByRating_Ascending(sorted, p) ==
    IF sorted = <<>> THEN <<p>>
    ELSE IF Last(sorted).rating <= p.rating THEN Append(sorted, p)
    ELSE Append(InsertByRating_Ascending(Front(sorted), p), Last(sorted))

\* Array.prototype.sort((a, b) => b.rating - a.rating): stable, descending
RECURSIVE InsertByRating(_, _)
InsertByRating(sorted, p) ==
    IF sorted = <<>> THEN <<p>>
    ELSE IF Last(sorted).rating >= p.rating THEN Append(sorted, p)
    ELSE Append(InsertByRating(Front(sorted), p), Last(sorted))

\* variant: the list is not sorted at all
SortByRating_Unsorted(ps) == ps

RECURSIVE SortByRating(_)
SortByRating(ps) ==
    IF ps = <<>> THEN <<>> ELSE InsertByRating(SortByRating(Front(ps)), Last(ps))

IsOddNumber(ps) == Len(ps) % 2 = 1

\* variant: the middle index is one too low, the substitute is one rank higher
SubstitutePlayer_OffByOne(ps) ==
    IF IsOddNumber(ps)
    THEN LET sortedByRating == SortByRating(ps)
             middleIndex == Len(sortedByRating) \div 2
         IN  <<sortedByRating[Max(1, middleIndex)]>>
    ELSE Undefined

\* variant: the middle element of the list as the caller ordered it
SubstitutePlayer_MiddleOfInput(ps) ==
    IF IsOddNumber(ps)
    THEN LET middleIndex == Len(ps) \div 2
         IN  <<ps[middleIndex + 1]>>
    ELSE Undefined

\* the substitute: the middle element of the rating-sorted copy, or null
SubstitutePlayer(ps) ==
    IF IsOddNumber(ps)
    THEN LET sortedByRating == SortByRating(ps)
             middleIndex == Len(sortedByRating) \div 2
         IN  <<sortedByRating[middleIndex + 1]>>
    ELSE Undefined

\* players.filter((p) => p.id !== id)
FilterOutId(ps, id) == SelectSeq(ps, LAMBDA p : p.id # id)

\* variant: the substitute is not removed from the working set
PlayersToBalance_KeepsSubstitute(ps) == ps

PlayersToBalance(ps) ==
    IF IsOddNumber(ps) THEN FilterOutId(ps, SubstitutePlayer(ps)[1].id) ELSE ps

\* variant: team1Rating < team2Rating, equal sums go to team2
Assign_TieToTeam2(acc, player) ==
    IF acc.team1Rating < acc.team2Rating
    THEN [acc EXCEPT !.team1 = Append(@, player), !.team1Rating = @ + player.rating]
    ELSE [acc EXCEPT !.team2 = Append(@, player), !.team2Rating = @ + player.rating]

\* variant: team1Rating >= team2Rating, each player goes to the squad ahead
Assign_ToHigherSum(acc, player) ==
    IF acc.team1Rating >= acc.team2Rating
    THEN [acc EXCEPT !.team1 = Append(@, player), !.team1Rating = @ + player.rating]
    ELSE [acc EXCEPT !.team2 = Append(@, player), !.team2Rating = @ + player.rating]

\* one step of the greedy loop
Assign(acc, player) ==
    IF acc.team1Rating <= acc.team2Rating
    THEN [acc EXCEPT !.team1 = Append(@, player), !.team1Rating = @ + player.rating]
    ELSE [acc EXCEPT !.team2 = Append(@, player), !.team2Rating = @ + player.rating]

\* the greedy loop over the sorted players
RECURSIVE Distribute(_)
Distribute(sortedPlayers) ==
    IF sortedPlayers = <<>>
    THEN [team1 |-> <<>>, team2 |-> <<>>, team1Rating |-> 0, team2Rating |-> 0]
    ELSE Assign(Distribute(Front(sortedPlayers)), Last(sortedPlayers))

\* variant: team1Rating < team2Rating, equal sums send the substitute to team2
TeamWithSub_TieToTeam2(acc) == IF acc.team1Rating < acc.team2Rating THEN 1 ELSE 2

\* variant: team1Rating > team2Rating, the substitute joins the squad ahead
TeamWithSub_HigherSum(acc) == IF acc.team1Rating > acc.team2Rating THEN 1 ELSE 2

TeamWithSub(acc) == IF acc.team1Rating <= acc.team2Rating THEN 1 ELSE 2

\* variant: currentDiff <= closestDiff, the last of several closest players wins
RECURSIVE FindClosestRatingPlayer_LastWins(_, _)
FindClosestRatingPlayer_LastWins(targetPlayer, ps) ==
    IF ps = <<>> THEN Undefined
    ELSE IF Len(ps) = 1 THEN <<ps[1]>>
    ELSE LET closest == FindClosestRatingPlayer_LastWins(targetPlayer, Front(ps))[1]
             current == Last(ps)
             currentDiff == Abs(current.rating - targetPlayer.rating)
             closestDiff == Abs(closest.rating - targetPlayer.rating)
         IN  <<IF currentDiff <= closestDiff THEN current ELSE closest>>

\* players.reduce(...) without an initial value: the first element seeds it
RECURSIVE FindClosestRatingPlayer(_, _)
FindClosestRatingPlayer(targetPlayer, ps) ==
    IF ps = <<>> THEN Undefined
    ELSE IF Len(ps) = 1 THEN <<ps[1]>>
    ELSE LET closest == FindClosestRatingPlayer(targetPlayer, Front(ps))[1]
             current == Last(ps)
             currentDiff == Abs(current.rating - targetPlayer.rating)
             closestDiff == Abs(closest.rating - targetPlayer.rating)
         IN  <<IF currentDiff < closestDiff THEN current ELSE closest>>

\* variant: the squad-mates are filtered by rating instead of by id
RotationCandidates_ByRating(targetTeam, substitutePlayer) ==
    SelectSeq(targetTeam, LAMBDA p : p.rating # substitutePlayer.rating)

\* targetTeam.filter((p) => p.id !== substitutePlayer.id)
RotationCandidates(targetTeam, substitutePlayer) ==
    FilterOutId(targetTeam, substitutePlayer.id)

\* variant: the substitute is never added to a squad
PushSubstitute_Dropped(team, substitutePlayer) == team

\* variant: the substitute is put in front of its squad (unshift)
PushSubstitute_Front(team, substitutePlayer) == <<substitutePlayer>> \o team

\* targetTeam.push(substitutePlayer)
PushSubstitute(team, substitutePlayer) == Append(team, substitutePlayer)

\* the ratingDifference of the returned TeamPair
RatingDifference(acc) == Abs(acc.team1Rating - acc.team2Rating)

\* lines 63-98: the substitute joins its squad and the TeamPair is built from
\* what the greedy loop left in acc
Assemble(ps, acc) ==
    LET substitutePlayer == SubstitutePlayer(ps)
        hasSub == substitutePlayer # Undefined /\ IsOddNumber(ps)
        teamWithSub == TeamWithSub(acc)
        team1 == IF hasSub /\ teamWithSub = 1
                 THEN PushSubstitute(acc.team1, substitutePlayer[1]) ELSE acc.team1
        team2 == IF hasSub /\ teamWithSub = 2
                 THEN PushSubstitute(acc.team2, substitutePlayer[1]) ELSE acc.team2
        targetTeam == IF teamWithSub = 1 THEN team1 ELSE team2
        rotationPlayer ==
            IF hasSub
            THEN FindClosestRatingPlayer(substitutePlayer[1],
                                         RotationCandidates(targetTeam, substitutePlayer[1]))
            ELSE Undefined
    IN  [team1 |-> team1,
         team2 |-> team2,
         ratingDifference |-> RatingDifference(acc),
         substituteInfo |->
            IF hasSub /\ rotationPlayer # Undefined
            THEN <<[teamWithSub |-> teamWithSub,
                    substitutePair |-> [substitute |-> substitutePlayer[1],
                                        rotationPlayer |-> rotationPlayer[1]]]>>
            ELSE Undefined]

BalanceTeams(ps) == Assemble(ps, Distribute(SortByRating(PlayersToBalance(ps))))

\* variant: playersToBalance = players, so the even-sized argument is sorted in place
ArgumentAfterBalanceTeams_Sorted(ps) == IF IsOddNumber(ps) THEN ps ELSE SortByRating(ps)

\* the argument array after balanceTeams: the in-place sort of line 44 works on
\* playersToBalance, a spread copy (line 31) or a filter result (line 40)
ArgumentAfterBalanceTeams(ps) == ps

(* ----------------------- randomisation helpers ------------------------- *)

\* variant: the offset is not shifted down by variation
GetRandomVariation_Unshifted(variation) == 0..(2 * variation)

\* the values Math.floor(Math.random() * (variation * 2 + 1)) - variation takes
GetRandomVariation(variation) == (0 - variation)..variation

\* variant: the perturbed rating is not clamped
ClampRating_Unclamped(r) == r

ClampRating(r) == Max(MinRating, Min(MaxRating, r))

\* every list randomizePlayerRatings can return
RECURSIVE RandomizePlayerRatings(_, _)
RandomizePlayerRatings(ps, variation) ==
    IF ps = <<>> THEN {<<>>}
    ELSE {Append(rest, [Last(ps) EXCEPT !.rating = r]) :
            rest \in RandomizePlayerRatings(Front(ps), variation),
            r \in {ClampRating(Last(ps).rating + d) : d \in GetRandomVariation(variation)}}

\* the argument array after randomizePlayerRatings: map builds a new array of
\* new records ({...player, rating}), the argument's records keep their rating
ArgumentAfterRandomize(ps, randomized) == ps

Swap(array, a, b) == [array EXCEPT ![a] = array[b], ![b] = array[a]]

\* every list the Fisher-Yates loop can return, from index k downwards
RECURSIVE ShuffleFrom(_, _)
ShuffleFrom(array, k) ==
    IF k < 2 THEN {array}
    ELSE UNION {ShuffleFrom(Swap(array, k, j), k - 1) : j \in 1..k}

ShuffleArray(array) == ShuffleFrom(array, Len(array))

\* variant: the comparison is reversed, the trial with the larger difference is kept
KeepBest_Reversed(best, balance) ==
    IF balance.ratingDifference > best.ratingDifference THEN balance ELSE best

\* variant: balance.ratingDifference <= bestBalance.ratingDifference, a tie replaces
KeepBest_OrEqual(best, balance) ==
    IF balance.ratingDifference <= best.ratingDifference THEN balance ELSE best

\* if (balance.ratingDifference < bestBalance.ratingDifference) bestBalance = balance
KeepBest(best, balance) ==
    IF balance.ratingDifference < best.ratingDifference THEN balance ELSE best

\* variant: i <= iterations, one iteration more than asked for
MoreIterations_Inclusive(idx, n) == idx <= n

\* the loop condition i < iterations of the two trial loops
MoreIterations(idx, n) == idx < n

(* ---------------- findBestTeamBalance as a nested call ------------------ *)

\* every balance one iteration of the loop of findBestTeamBalance can compute
TrialBalances(ps) ==
    UNION {{BalanceTeams(shuffledPlayers) : shuffledPlayers \in ShuffleArray(randomizedPlayers)} :
            randomizedPlayers \in RandomizePlayerRatings(ps, DefaultVariation)}

\* the values bestBalance can hold after n more iterations, from those in bests;
\* once an iteration leaves the set as it is the remaining ones do too
RECURSIVE BestAfter(_, _, _)
BestAfter(bests, trials, n) ==
    IF n = 0 THEN bests
    ELSE LET next == {KeepBest(best, balance) : best \in bests, balance \in trials}
         IN  IF next = bests THEN bests ELSE BestAfter(next, trials, n - 1)

\* every TeamPair findBestTeamBalance(ps, n) can return, for Len(ps) >= 2
FindBestTeamBalanceOutcomes(ps, n) ==
    BestAfter({BalanceTeams(ps)}, TrialBalances(ps), n)

(* ----------------------- createMultipleTeamPairs ------------------------ *)

\* `Need at least ${pairCount * 2} players to create ${pairCount} team pairs`
NeedAtLeast(k) ==
    "Need at least " \o ToString(k * 2) \o " players to create " \o ToString(k)
        \o " team pairs"

\* variant: the guard is players.length < pairCount
TooFewForPairs_Half(ps, k) == Len(ps) < k

\* variant: a pairCount below 1 is rejected too
TooFewForPairs_NonPositive(ps, k) == k <= 0 \/ Len(ps) < k * 2

TooFewForPairs(ps, k) == Len(ps) < k * 2

\* variant: Math.ceil instead of Math.floor
PlayersPerPair_Ceiling(n, k) == (n + k - 1) \div k

\* variant: the pool is divided by the number of squads, pairCount * 2
PlayersPerPair_PerTeam(n, k) == n \div (k * 2)

\* Math.floor(players.length / pairCount)
PlayersPerPair(n, k) == n \div k

StartIndex(idx, n, k) == idx * PlayersPerPair(n, k)

\* variant: the last chunk ends like the others and drops the remainder
EndIndex_NoRemainder(idx, n, k) == (idx + 1) * PlayersPerPair(n, k)

EndIndex(idx, n, k) == IF idx = k - 1 THEN n ELSE (idx + 1) * PlayersPerPair(n, k)

\* array.slice(from, to), for 0 <= from <= to <= array.length
Slice(array, from, to) == SubSeq(array, from + 1, to)

PairPlayers(pool, idx, k) ==
    Slice(pool, StartIndex(idx, Len(pool), k), EndIndex(idx, Len(pool), k))

(* -------------------------- calculateTeamStats -------------------------- *)

\* players.reduce((sum, player) => sum + player.rating, 0)
RECURSIVE TotalRating(_)
TotalRating(ps) == IF ps = <<>> THEN 0 ELSE TotalRating(Front(ps)) + Last(ps).rating

\* variant: Math.floor instead of Math.round
MathRound_Floor(num, den) == num \div den

\* Math.round(num / den), den > 0: the nearest integer, halves go up
MathRound(num, den) ==
    LET whole == num \div den
        rest == num - whole * den
    IN  IF 2 * rest >= den THEN whole + 1 ELSE whole

\* Math.min(...ratings), for a non-empty list
RECURSIVE MinRatingOf(_)
MinRatingOf(ps) ==
    IF Len(ps) = 1 THEN ps[1].rating ELSE Min(MinRatingOf(Front(ps)), Last(ps).rating)

\* Math.max(...ratings), for a non-empty list
RECURSIVE MaxRatingOf(_)
MaxRatingOf(ps) ==
    IF Len(ps) = 1 THEN ps[1].rating ELSE Max(MaxRatingOf(Front(ps)), Last(ps).rating)

\* variant: no early return, the folds start from the ends of the rating range
CalculateTeamStats_NoEmptyCase(ps) ==
    [totalRating |-> TotalRating(ps),
     averageRating |-> IF ps = <<>> THEN 0 ELSE MathRound(TotalRating(ps), Len(ps)),
     playerCount |-> Len(ps),
     minRating |-> IF ps = <<>> THEN MaxRating ELSE MinRatingOf(ps),
     maxRating |-> IF ps = <<>> THEN MinRating ELSE MaxRatingOf(ps)]

CalculateTeamStats(ps) ==
    IF Len(ps) = 0
    THEN [totalRating |-> 0, averageRating |-> 0, playerCount |-> 0,
          minRating |-> 0, maxRating |-> 0]
    ELSE LET totalRating == TotalRating(ps)
         IN  [totalRating |-> totalRating,
              averageRating |-> MathRound(totalRating, Len(ps)),
              playerCount |-> Len(ps),
              minRating |-> MinRatingOf(ps),
              maxRating |-> MaxRatingOf(ps)]

(* ------------------------------ state ---------------------------------- *)

NoBalance == Undefined

\* the caller's lists: ids unique within a call, any rating of RatingValues
Inputs(sizes, ratings) ==
    UNION {{[k \in 1..n |-> Player(k, f[k])] : f \in [1..n -> ratings]} : n \in sizes}

\* the lists the trial loops are run on
TrialInputs == Inputs(TrialSizes, TrialRatingValues)

\* the two worked examples: four players rated 90, 80, 70, 60 and five players
\* rated 100, 80, 60, 40, 20
ScenarioEven == <<Player(1, 90), Player(2, 80), Player(3, 70), Player(4, 60)>>

ScenarioOdd == <<Player(1, 100), Player(2, 80), Player(3, 60), Player(4, 40), Player(5, 20)>>

\* the pools createMultipleTeamPairs is run on
MultiInputs ==
    Inputs(MultiMixedSizes, MultiMixedRatings) \cup Inputs(MultiEvenSizes, MultiEvenRatings)

Init ==
    /\ players \in Inputs(0..MaxPlayers, RatingValues) \cup TrialInputs \cup MultiInputs
                    \cup {ScenarioEven, ScenarioOdd}
    /\ original = players
    /\ pairCount = 0
    /\ shuffled = <<>>
    /\ pairs = <<>>
    /\ stats = Undefined
    /\ minDifference = Undefined
    /\ frames = <<>>
    /\ op = "none"
    /\ pc = "idle"
    /\ iterations = 0
    /\ ratingVariation = 0
    /\ i = 0
    /\ bestBalance = NoBalance
    /\ result = Undefined
    /\ error = ""

\* variant: the guard is players.length < 1
TooFew_OffByOne(ps) == Len(ps) < 1

TooFew(ps) == Len(ps) < MinPlayers

Throw(name) ==
    /\ op' = name
    /\ pc' = "done"
    /\ error' = InsufficientPlayers
    /\ UNCHANGED <<players, original, iterations, ratingVariation, i, bestBalance, result>>
    /\ UNCHANGED <<others, minDifference>>

(* ----------------------------- actions --------------------------------- *)

CallBalanceTeams ==
    /\ UNCHANGED frames
    /\ pc = "idle"
    /\ IF TooFew(players)
       THEN Throw("balanceTeams")
       ELSE /\ op' = "balanceTeams"
            /\ pc' = "done"
            /\ result' = <<BalanceTeams(players)>>
            /\ players' = ArgumentAfterBalanceTeams(players)
            /\ UNCHANGED <<original, iterations, ratingVariation, i, bestBalance, error>>
            /\ UNCHANGED <<others, minDifference>>

CallFindBestTeamBalance ==
    /\ UNCHANGED frames
    /\ pc = "idle"
    /\ players \in TrialInputs
    /\ \E n \in 0..MaxIterations :
        IF TooFew(players)
        THEN Throw("findBestTeamBalance")
        ELSE /\ op' = "findBestTeamBalance"
             /\ pc' = "loop"
             /\ iterations' = n
             /\ i' = 0
             /\ \E balance \in {BalanceTeams(players)} :
                    /\ bestBalance' = <<balance>>
                    /\ minDifference' = <<balance.ratingDifference>>
             /\ players' = ArgumentAfterBalanceTeams(players)
             /\ UNCHANGED <<original, ratingVariation, result, error>>
             /\ UNCHANGED others

BestTrial ==
    /\ UNCHANGED frames
    /\ pc = "loop"
    /\ op = "findBestTeamBalance"
    /\ MoreIterations(i, iterations)
    /\ \E randomizedPlayers \in RandomizePlayerRatings(players, DefaultVariation) :
         /\ \E balance \in {BalanceTeams(shuffledPlayers) :
                                shuffledPlayers \in ShuffleArray(randomizedPlayers)} :
                /\ bestBalance' = <<KeepBest(bestBalance[1], balance)>>
                /\ minDifference' = <<Min(minDifference[1], balance.ratingDifference)>>
         /\ players' = ArgumentAfterRandomize(players, randomizedPlayers)
    /\ i' = i + 1
    /\ UNCHANGED <<original, op, pc, iterations, ratingVariation, result, error>>
    /\ UNCHANGED others

BestReturn ==
    /\ UNCHANGED frames
    /\ pc = "loop"
    /\ op = "findBestTeamBalance"
    /\ ~MoreIterations(i, iterations)
    /\ result' = bestBalance
    /\ pc' = "done"
    /\ UNCHANGED <<players, original, op, iterations, ratingVariation, i, bestBalance, error>>
    /\ UNCHANGED <<others, minDifference>>

CallFindRandomizedTeamBalance ==
    /\ UNCHANGED frames
    /\ pc = "idle"
    /\ players \in TrialInputs
    /\ \E v \in VariationValues, n \in 0..MaxIterations :
        IF TooFew(players)
        THEN Throw("findRandomizedTeamBalance")
        ELSE /\ op' = "findRandomizedTeamBalance"
             /\ pc' = "loop"
             /\ iterations' = n
             /\ ratingVariation' = v
             /\ i' = 0
             /\ \E randomizedPlayers \in RandomizePlayerRatings(players, v) :
                    /\ \E balance \in {BalanceTeams(randomizedPlayers)} :
                            /\ bestBalance' = <<balance>>
                            /\ minDifference' = <<balance.ratingDifference>>
                    /\ players' = ArgumentAfterRandomize(players, randomizedPlayers)
             /\ UNCHANGED <<original, result, error>>
             /\ UNCHANGED others

RandomizedTrial ==
    /\ UNCHANGED frames
    /\ pc = "loop"
    /\ op = "findRandomizedTeamBalance"
    /\ MoreIterations(i, iterations)
    /\ \E freshRandomizedPlayers \in RandomizePlayerRatings(players, ratingVariation) :
         /\ \E balance \in {BalanceTeams(shuffledPlayers) :
                                shuffledPlayers \in ShuffleArray(freshRandomizedPlayers)} :
                /\ bestBalance' = <<KeepBest(bestBalance[1], balance)>>
                /\ minDifference' = <<Min(minDifference[1], balance.ratingDifference)>>
         /\ players' = ArgumentAfterRandomize(players, freshRandomizedPlayers)
    /\ i' = i + 1
    /\ UNCHANGED <<original, op, pc, iterations, ratingVariation, result, error>>
    /\ UNCHANGED others

RandomizedReturn ==
    /\ UNCHANGED frames
    /\ pc = "loop"
    /\ op = "findRandomizedTeamBalance"
    /\ ~MoreIterations(i, iterations)
    /\ result' = bestBalance
    /\ pc' = "done"
    /\ UNCHANGED <<players, original, op, iterations, ratingVariation, i, bestBalance, error>>
    /\ UNCHANGED <<others, minDifference>>

CallCreateMultipleTeamPairs ==
    /\ UNCHANGED frames
    /\ pc = "idle"
    /\ players \in MultiInputs
    /\ \E k \in PairCounts :
        /\ k <= 0 \/ Len(players) < k * 2 \/ <<Len(players), k>> \in MultiShapes
        /\ op' = "createMultipleTeamPairs"
        /\ pairCount' = k
        /\ IF TooFewForPairs(players, k)
           THEN /\ pc' = "done"
                /\ error' = NeedAtLeast(k)
                /\ UNCHANGED shuffled
           ELSE /\ pc' = "loop"
                /\ shuffled' \in ShuffleArray(players)
                /\ UNCHANGED error
        /\ UNCHANGED <<players, original, iterations, ratingVariation, i, bestBalance,
                       result, pairs, stats, minDifference>>

PairStep ==
    /\ UNCHANGED frames
    /\ pc = "loop"
    /\ op = "createMultipleTeamPairs"
    /\ i < pairCount
    /\ LET pairPlayers == PairPlayers(shuffled, i, pairCount)
       IN  IF Len(pairPlayers) >= 2
           THEN \E balance \in FindBestTeamBalanceOutcomes(pairPlayers, PairIterations) :
                    pairs' = Append(pairs, balance)
           ELSE UNCHANGED pairs
    /\ i' = i + 1
    /\ UNCHANGED <<players, original, op, pc, iterations, ratingVariation, bestBalance,
                   result, error, pairCount, shuffled, stats, minDifference>>

PairsReturn ==
    /\ UNCHANGED frames
    /\ pc = "loop"
    /\ op = "createMultipleTeamPairs"
    /\ ~(i < pairCount)
    /\ pc' = "done"
    /\ UNCHANGED <<players, original, op, iterations, ratingVariation, i, bestBalance,
                   result, error, pairCount, shuffled, pairs, stats, minDifference>>

CallCalculateTeamStats ==
    /\ UNCHANGED frames
    /\ pc = "idle"
    /\ op' = "calculateTeamStats"
    /\ pc' = "done"
    /\ stats' = <<CalculateTeamStats(players)>>
    /\ UNCHANGED <<players, original, iterations, ratingVariation, i, bestBalance, result,
                   error, pairCount, shuffled, pairs, minDifference>>

Next ==
    \/ CallBalanceTeams
    \/ CallFindBestTeamBalance
    \/ BestTrial
    \/ BestReturn
    \/ CallFindRandomizedTeamBalance
    \/ RandomizedTrial
    \/ RandomizedReturn
    \/ CallCreateMultipleTeamPairs
    \/ PairStep
    \/ PairsReturn
    \/ CallCalculateTeamStats

Spec == Init /\ [][Next]_vars

(* ------------------- two calls running interleaved --------------------- *)

(* The functions are synchronous, so one call runs to its end before the  *)
(* next starts. Here a host runs two calls, of balanceTeams or of         *)
(* findBestTeamBalance, at once and switches between them after any       *)
(* statement of the greedy loop or of the trial loop. Every call has a    *)
(* frame with its parameters, its place, and the variables the function   *)
(* bodies declare: the list being balanced, the rest of sortedPlayers,    *)
(* team1 / team2 / team1Rating / team2Rating (acc), bestBalance and i.    *)

Calls == {1, 2}

\* sizes and ratings of the lists the interleaved calls of balanceTeams get
InterleavedSizes == {2, 3}
InterleavedRatings == {1, 100}

\* values of iterations in the interleaved calls of findBestTeamBalance
InterleavedIterations == {0, 1}

Largest(S) == CHOOSE x \in S : \A y \in S : y <= x

\* the calls work on different players: the ids of call c
IdOf(c, k) == (c - 1) * Largest(InterleavedSizes) + k

CallInputs(c) ==
    UNION {{[k \in 1..n |-> Player(IdOf(c, k), f[k])] : f \in [1..n -> InterleavedRatings]} :
            n \in InterleavedSizes}

\* the list the interleaved calls of findBestTeamBalance get
CallTrialInput(c) == <<Player(IdOf(c, 1), MinRating), Player(IdOf(c, 2), MaxRating)>>

NewFrame(fn, arg, n) ==
    [fn |-> fn, arg |-> arg, iterations |-> n, pc |-> "start",
     choices |-> <<>>, interleaved |-> FALSE, result |-> Undefined,
     players |-> <<>>, sortedPlayers |-> <<>>, acc |-> Distribute(<<>>),
     bestBalance |-> NoBalance, i |-> 0]

StartFrames(c) ==
    {NewFrame("balanceTeams", arg, 0) : arg \in CallInputs(c)}
        \cup {NewFrame("findBestTeamBalance", CallTrialInput(c), n) : n \in InterleavedIterations}

\* the variables of the single call, idle in this specification
single == <<players, original, op, pc, iterations, ratingVariation, i, bestBalance, result,
            error, pairCount, shuffled, pairs, stats, minDifference>>

InitInterleaved ==
    /\ \E f1 \in StartFrames(1), f2 \in StartFrames(2) : frames = <<f1, f2>>
    /\ players = <<>>
    /\ original = <<>>
    /\ pairCount = 0
    /\ shuffled = <<>>
    /\ pairs = <<>>
    /\ stats = Undefined
    /\ minDifference = Undefined
    /\ op = "none"
    /\ pc = "idle"
    /\ iterations = 0
    /\ ratingVariation = 0
    /\ i = 0
    /\ bestBalance = NoBalance
    /\ result = Undefined
    /\ error = ""

\* variant: the working variables are module-level, every call uses the same ones
FrameOf_Shared(c) == 1

\* where call c keeps its working variables: they are declared inside the
\* function bodies, so each call has its own
FrameOf(c) == c

\* the other calls that are between their first and their last step have been
\* interleaved with call c
Mark(fs, c) ==
    [d \in Calls |->
        IF d # c /\ fs[d].pc \notin {"start", "done"}
        THEN [fs[d] EXCEPT !.interleaved = TRUE]
        ELSE fs[d]]

\* balanceTeams up to line 50: the list is copied and sorted, the squads are empty
Entered(fs, c, ps) ==
    [fs EXCEPT ![c].pc = "distribute",
               ![FrameOf(c)].players = ps,
               ![FrameOf(c)].sortedPlayers = SortByRating(PlayersToBalance(ps)),
               ![FrameOf(c)].acc = Distribute(<<>>)]

\* call c takes a step that leaves the frames fs
Resume(fs, c) == frames' = Mark(fs, c) /\ UNCHANGED single

EnterBalanceTeams(c) ==
    /\ frames[c].pc = "start"
    /\ frames[c].fn = "balanceTeams"
    /\ Resume(Entered(frames, c, frames[c].arg), c)

EnterFindBestTeamBalance(c) ==
    /\ frames[c].pc = "start"
    /\ frames[c].fn = "findBestTeamBalance"
    /\ Resume([Entered(frames, c, frames[c].arg) EXCEPT
                    ![FrameOf(c)].bestBalance = NoBalance,
                    ![FrameOf(c)].i = 0], c)

\* one iteration of the greedy loop
GreedyStep(c) ==
    /\ frames[c].pc = "distribute"
    /\ frames[FrameOf(c)].sortedPlayers # <<>>
    /\ Resume([frames EXCEPT
                    ![FrameOf(c)].acc = Assign(@, Head(frames[FrameOf(c)].sortedPlayers)),
                    ![FrameOf(c)].sortedPlayers = Tail(@)], c)

\* balanceTeams returns to its caller
FinishBalanceTeams(c) ==
    /\ frames[c].pc = "distribute"
    /\ frames[c].fn = "balanceTeams"
    /\ frames[FrameOf(c)].sortedPlayers = <<>>
    /\ Resume([frames EXCEPT
                    ![c].pc = "done",
                    ![c].result = <<Assemble(frames[FrameOf(c)].players,
                                             frames[FrameOf(c)].acc)>>], c)

\* balanceTeams returns to findBestTeamBalance: the seed (line 141) or a trial
\* (lines 148-152)
FinishSeedOrTrial(c) ==
    /\ frames[c].pc = "distribute"
    /\ frames[c].fn = "findBestTeamBalance"
    /\ frames[FrameOf(c)].sortedPlayers = <<>>
    /\ LET work == frames[FrameOf(c)]
           balance == Assemble(work.players, work.acc)
       IN  Resume([frames EXCEPT
                    ![c].pc = "loop",
                    ![FrameOf(c)].bestBalance =
                        IF @ = NoBalance THEN <<balance>> ELSE <<KeepBest(@[1], balance)>>,
                    ![FrameOf(c)].i =
                        IF work.bestBalance = NoBalance THEN @ ELSE @ + 1], c)

\* lines 144-148: the next trial draws its ratings and its order and calls balanceTeams
DrawTrial(c) ==
    /\ frames[c].pc = "loop"
    /\ MoreIterations(frames[FrameOf(c)].i, frames[c].iterations)
    /\ \E randomizedPlayers \in RandomizePlayerRatings(frames[c].arg, DefaultVariation) :
         \E shuffledPlayers \in ShuffleArray(randomizedPlayers) :
            Resume([Entered(frames, c, shuffledPlayers) EXCEPT
                        ![c].choices = Append(@, shuffledPlayers)], c)

\* line 155
ReturnBest(c) ==
    /\ frames[c].pc = "loop"
    /\ ~MoreIterations(frames[FrameOf(c)].i, frames[c].iterations)
    /\ Resume([frames EXCEPT
                    ![c].pc = "done",
                    ![c].result = frames[FrameOf(c)].bestBalance], c)

NextInterleaved ==
    \E c \in Calls :
        \/ EnterBalanceTeams(c)
        \/ EnterFindBestTeamBalance(c)
        \/ GreedyStep(c)
        \/ FinishBalanceTeams(c)
        \/ FinishSeedOrTrial(c)
        \/ DrawTrial(c)
        \/ ReturnBest(c)

SpecInterleaved == InitInterleaved /\ [][NextInterleaved]_vars

(* ------------------------- checked properties -------------------------- *)

\* a call has returned a TeamPair
Returned == pc = "done" /\ error = "" /\ result # Undefined

\* the entry points that build one TeamPair
SingleSplits == {"balanceTeams", "findBestTeamBalance", "findRandomizedTeamBalance"}

ReturnedBy(name) == Returned /\ op = name

TeamPairOf(r) == r[1]

\* the players of both squads, team1 followed by team2
AllPlayers(tp) == tp.team1 \o tp.team2

SquadOf(tp, n) == IF n = 1 THEN tp.team1 ELSE tp.team2

OtherSquadOf(tp, n) == IF n = 1 THEN tp.team2 ELSE tp.team1

InputIndex(id) == (CHOOSE k \in 1..Len(players) : players[k].id = id)

\* C1: the TeamPair returned by balanceTeams, findBestTeamBalance and
\* findRandomizedTeamBalance is a partition of the input by id: the ids of
\* team1 followed by team2 are a permutation of the input ids, and no id is in
\* both squads.
C1_PartitionById ==
    Returned =>
        LET tp == TeamPairOf(result)
            all == AllPlayers(tp)
        IN  /\ Len(all) = Len(players)
            /\ Ids(all) = Ids(players)
            /\ \A a, b \in 1..Len(all) : all[a].id = all[b].id => a = b
            /\ Ids(tp.team1) \cap Ids(tp.team2) = {}

C1_Witness ==
    /\ ReturnedBy("findRandomizedTeamBalance")
    /\ Len(players) = 3
    /\ i = 2
    /\ TeamPairOf(result).substituteInfo # Undefined
    /\ TeamPairOf(result).team2 # <<>>

\* C2: for every TeamPair returned by balanceTeams, odd-sized inputs included,
\* ratingDifference = |sum of ratings of team1 - sum of ratings of team2|.
C2_RatingDifferenceOfSquads ==
    ReturnedBy("balanceTeams") =>
        LET tp == TeamPairOf(result)
        IN  tp.ratingDifference = Abs(SumRatings(tp.team1) - SumRatings(tp.team2))

\* C3: the three entry points fail with the insufficient-players error and
\* return no TeamPair exactly when called with fewer than 2 players.
C3_InsufficientPlayers ==
    /\ (pc = "done" /\ op \in SingleSplits) =>
        /\ error = InsufficientPlayers <=> Len(players) < 2
        /\ error = "" <=> Len(players) >= 2
        /\ error # "" => result = Undefined
        /\ error = "" => result # Undefined
    /\ (pc = "loop" /\ op \in SingleSplits) => error = "" /\ Len(players) >= 2

C3_Witness ==
    /\ pc = "done"
    /\ op = "findBestTeamBalance"
    /\ Len(players) = 1
    /\ error = InsufficientPlayers
    /\ result = Undefined

\* C4 (as stated): every player of the TeamPair returned by findBestTeamBalance
\* carries exactly the rating of the input player with the same id.
C4_RatingsUnmodified ==
    ReturnedBy("findBestTeamBalance") =>
        LET all == AllPlayers(TeamPairOf(result))
        IN  \A k \in 1..Len(all) : all[k].rating = players[InputIndex(all[k].id)].rating

\* C4 (amended): every player of the TeamPair returned by findBestTeamBalance
\* carries the id and name of an input player and either that player's rating
\* or that rating moved by an integer offset in -5..5 and clamped to 1..100.
C4_RatingsWithinVariation ==
    ReturnedBy("findBestTeamBalance") =>
        LET all == AllPlayers(TeamPairOf(result))
        IN  \A k \in 1..Len(all) :
                LET q == players[InputIndex(all[k].id)]
                IN  /\ all[k].name = q.name
                    /\ \/ all[k].rating = q.rating
                       \/ \E d \in (0 - DefaultVariation)..DefaultVariation :
                            all[k].rating = Max(MinRating, Min(MaxRating, q.rating + d))

C4_Witness ==
    /\ ReturnedBy("findBestTeamBalance")
    /\ LET all == AllPlayers(TeamPairOf(result))
       IN  \E k \in 1..Len(all) :
            /\ players[InputIndex(all[k].id)].rating = MaxRating
            /\ all[k].rating = MaxRating - DefaultVariation

\* C5: monotonic improvement: the ratingDifference findBestTeamBalance holds as
\* its best, and returns, is never above balanceTeams(players).ratingDifference.
C5_MonotonicImprovement ==
    /\ (pc = "loop" /\ op = "findBestTeamBalance") =>
            TeamPairOf(bestBalance).ratingDifference <= BalanceTeams(players).ratingDifference
    /\ ReturnedBy("findBestTeamBalance") =>
            TeamPairOf(result).ratingDifference <= BalanceTeams(players).ratingDifference

C5_Witness ==
    /\ ReturnedBy("findBestTeamBalance")
    /\ iterations = 2
    /\ TeamPairOf(result).ratingDifference < BalanceTeams(players).ratingDifference

C7_SubstituteInNamedSquad ==
    (Returned /\ TeamPairOf(result).substituteInfo # Undefined) =>
        LET tp == TeamPairOf(result)
            info == tp.substituteInfo[1]
            substitute == info.substitutePair.substitute
            squad == SquadOf(tp, info.teamWithSub)
        IN  /\ info.teamWithSub \in {1, 2}
            /\ squad # <<>>
            /\ Last(squad) = substitute
            /\ \A k \in 1..(Len(squad) - 1) : squad[k].id # substitute.id
            /\ substitute.id \notin Ids(OtherSquadOf(tp, info.teamWithSub))

C7_Witness ==
    /\ ReturnedBy("balanceTeams")
    /\ TeamPairOf(result).substituteInfo # Undefined
    /\ TeamPairOf(result).substituteInfo[1].teamWithSub = 2
    /\ Len(TeamPairOf(result).team2) = 3

\* C8: substituteInfo is returned if and only if the input size is odd.
C8_SubstituteInfoIffOdd ==
    Returned => (TeamPairOf(result).substituteInfo # Undefined <=> IsOddNumber(players))

C8_Witness ==
    /\ ReturnedBy("balanceTeams")
    /\ Len(players) = 3
    /\ \A k \in 1..Len(players) : players[k].rating = 0
    /\ TeamPairOf(result).substituteInfo # Undefined
    /\ TeamPairOf(result).team2 = <<>>

\* C9: whenever substituteInfo is returned, rotationPlayer is a squad-mate of
\* the substitute, is not the substitute, and is the first squad-mate in squad
\* order whose rating is at minimum distance from the substitute's rating.
C9_RotationPlayerClosest ==
    (Returned /\ TeamPairOf(result).substituteInfo # Undefined) =>
        LET tp == TeamPairOf(result)
            info == tp.substituteInfo[1]
            substitute == info.substitutePair.substitute
            rotationPlayer == info.substitutePair.rotationPlayer
            squad == SquadOf(tp, info.teamWithSub)
            dist(p) == Abs(p.rating - substitute.rating)
        IN  /\ rotationPlayer.id # substitute.id
            /\ \E k \in 1..Len(squad) :
                /\ squad[k] = rotationPlayer
                /\ \A m \in 1..Len(squad) :
                    squad[m].id # substitute.id =>
                        /\ dist(rotationPlayer) <= dist(squad[m])
                        /\ m < k => dist(rotationPlayer) < dist(squad[m])

C9_Witness ==
    /\ ReturnedBy("balanceTeams")
    /\ TeamPairOf(result).substituteInfo # Undefined
    /\ LET tp == TeamPairOf(result)
           info == tp.substituteInfo[1]
           squad == SquadOf(tp, info.teamWithSub)
       IN  /\ Len(squad) = 3
           /\ squad[1].rating = squad[2].rating
           /\ squad[1] = info.substitutePair.rotationPlayer

C12_PairsGuard ==
    (op = "createMultipleTeamPairs" /\ pc \in {"loop", "done"}) =>
        /\ error # "" <=> Len(players) < pairCount * 2
        /\ error # "" =>
            /\ error = NeedAtLeast(pairCount)
            /\ pc = "done"
            /\ i = 0
            /\ shuffled = <<>>
            /\ pairs = <<>>

C12_Witness ==
    /\ op = "createMultipleTeamPairs"
    /\ pc = "done"
    /\ Len(players) = 3
    /\ pairCount = 2
    /\ error = "Need at least 4 players to create 2 team pairs"

\* the players of every squad of every returned pair, in order
RECURSIVE PlacedPlayers(_)
PlacedPlayers(tps) ==
    IF tps = <<>> THEN <<>> ELSE PlacedPlayers(Front(tps)) \o AllPlayers(Last(tps))

PairsReturned == op = "createMultipleTeamPairs" /\ pc = "done" /\ error = ""

EachIdOnce(placed) ==
    /\ Ids(placed) = Ids(players)
    /\ Len(placed) = Len(players)
    /\ \A a, b \in 1..Len(placed) : placed[a].id = placed[b].id => a = b

\* C13 (as stated): whenever createMultipleTeamPairs returns without error,
\* every input id is in exactly one squad of exactly one returned TeamPair.
C13_AllPlayersPlaced == PairsReturned => EachIdOnce(PlacedPlayers(pairs))

\* C13 (amended): whenever createMultipleTeamPairs returns without error for a
\* pairCount >= 1, every input id is in exactly one squad of exactly one
\* returned TeamPair.
C13_AllPlayersPlacedForPositiveCount ==
    (PairsReturned /\ pairCount >= 1) => EachIdOnce(PlacedPlayers(pairs))

C13_Witness ==
    /\ PairsReturned
    /\ pairCount = 2
    /\ Len(players) = 5
    /\ Len(pairs) = 2
    /\ Len(AllPlayers(pairs[2])) = 3

\* C14: every player of the TeamPair findRandomizedTeamBalance returns has the
\* rating min(100, max(1, r + d)) for the input rating r of the same id and an
\* integer d with -ratingVariation <= d <= ratingVariation, so it lies in 1..100.
C14_RandomizedRatings ==
    ReturnedBy("findRandomizedTeamBalance") =>
        LET all == AllPlayers(TeamPairOf(result))
        IN  \A k \in 1..Len(all) :
                LET r == players[InputIndex(all[k].id)].rating
                IN  /\ all[k].rating \in MinRating..MaxRating
                    /\ \E d \in (0 - ratingVariation)..ratingVariation :
                            all[k].rating = Min(MaxRating, Max(MinRating, r + d))

C14_Witness ==
    /\ ReturnedBy("findRandomizedTeamBalance")
    /\ ratingVariation = 2
    /\ i = 2
    /\ LET all == AllPlayers(TeamPairOf(result))
       IN  /\ \E k \in 1..Len(all) :
                /\ players[InputIndex(all[k].id)].rating = MaxRating
                /\ all[k].rating = MaxRating - 2
           /\ \E k \in 1..Len(all) :
                /\ players[InputIndex(all[k].id)].rating = MinRating
                /\ all[k].rating = MinRating

StatsReturned == op = "calculateTeamStats" /\ pc = "done"

\* C15: calculateTeamStats on an empty sequence does not fail and returns
\* totalRating, averageRating, playerCount, minRating and maxRating all 0.
C15_StatsOnEmpty ==
    (StatsReturned /\ players = <<>>) =>
        /\ error = ""
        /\ stats = <<[totalRating |-> 0, averageRating |-> 0, playerCount |-> 0,
                      minRating |-> 0, maxRating |-> 0]>>

C15_Witness == StatsReturned /\ players = <<>> /\ stats # Undefined

\* C16: for a non-empty sequence calculateTeamStats returns the sum of the
\* ratings, the length, the smallest and the largest rating, and the average
\* rounded to the nearest integer with halves rounded up.
C16_StatsOnNonEmpty ==
    (StatsReturned /\ players # <<>>) =>
        LET st == stats[1]
            n == Len(players)
        IN  /\ error = ""
            /\ st.totalRating = SumRatings(players)
            /\ st.playerCount = n
            /\ \E k \in 1..n : players[k].rating = st.minRating
            /\ \A k \in 1..n : players[k].rating >= st.minRating
            /\ \E k \in 1..n : players[k].rating = st.maxRating
            /\ \A k \in 1..n : players[k].rating <= st.maxRating
            /\ 2 * st.averageRating * n - n <= 2 * st.totalRating
            /\ 2 * st.totalRating < 2 * st.averageRating * n + n
            /\ st.averageRating = (2 * st.totalRating + n) \div (2 * n)

C16_Witness ==
    /\ StatsReturned
    /\ Len(players) = 4
    /\ stats[1].totalRating = 4 * stats[1].averageRating - 2
    /\ stats[1].minRating < stats[1].maxRating

\* q is handled before p by the greedy pass: higher rating, or the same rating
\* and earlier in the caller's list
Before(q, p) ==
    \/ q.rating > p.rating
    \/ q.rating = p.rating /\ InputIndex(q.id) < InputIndex(p.id)

\* the squads as the greedy pass left them, before the substitute was appended
GreedySquad(tp, n) ==
    IF tp.substituteInfo # Undefined /\ tp.substituteInfo[1].teamWithSub = n
    THEN Front(SquadOf(tp, n))
    ELSE SquadOf(tp, n)

\* the sum of the ratings of the players of a squad handled before p
RECURSIVE SumBefore(_, _)
SumBefore(squad, p) ==
    IF squad = <<>> THEN 0
    ELSE SumBefore(Front(squad), p) + (IF Before(Last(squad), p) THEN Last(squad).rating ELSE 0)

\* C17: the greedy pass of balanceTeams handles the non-substitute players in
\* rating-descending order, gives each to the squad whose running sum is lower
\* at that moment and to team1 when the sums are equal, and the squads list the
\* players in that order; for the players rated 90, 80, 70, 60 (A, B, C, D) it
\* returns team1 = [A, D], team2 = [B, C], ratingDifference = 0.
C17_GreedyPass ==
    ReturnedBy("balanceTeams") =>
        LET tp == TeamPairOf(result)
            g1 == GreedySquad(tp, 1)
            g2 == GreedySquad(tp, 2)
        IN  /\ \A k \in 1..Len(g1) :
                SumBefore(g1, g1[k]) <= SumBefore(g2, g1[k])
            /\ \A k \in 1..Len(g2) :
                SumBefore(g1, g2[k]) > SumBefore(g2, g2[k])
            /\ \A k \in 1..(Len(g1) - 1) : Before(g1[k], g1[k + 1])
            /\ \A k \in 1..(Len(g2) - 1) : Before(g2[k], g2[k + 1])
            /\ original = ScenarioEven =>
                /\ tp.team1 = <<Player(1, 90), Player(4, 60)>>
                /\ tp.team2 = <<Player(2, 80), Player(3, 70)>>
                /\ tp.ratingDifference = 0
                /\ tp.substituteInfo = Undefined

C17_Witness ==
    /\ ReturnedBy("balanceTeams")
    /\ original = ScenarioEven
    /\ Len(TeamPairOf(result).team1) = 2

C19_SubstituteIsMedian ==
    (ReturnedBy("balanceTeams") /\ IsOddNumber(players)) =>
        LET tp == TeamPairOf(result)
            n == Len(players)
            half == n \div 2
            substitute == tp.substituteInfo[1].substitutePair.substitute
            rest == {k \in 1..n : players[k].id # substitute.id}
        IN  /\ \E k \in 1..n : players[k] = substitute
            /\ Cardinality({k \in rest : Before(players[k], substitute)}) = half
            /\ Cardinality({k \in rest : players[k].rating >= substitute.rating}) >= half
            /\ Cardinality({k \in rest : players[k].rating <= substitute.rating}) >= half
            /\ (\A a, b \in 1..n : players[a].rating = players[b].rating => a = b) =>
                /\ \E k \in rest : players[k].rating > substitute.rating
                /\ \E k \in rest : players[k].rating < substitute.rating

C19_Witness ==
    /\ ReturnedBy("balanceTeams")
    /\ Len(players) = 5
    /\ \A a, b \in 1..Len(players) : players[a].rating = players[b].rating => a = b
    /\ players[1].rating = 2
    /\ TeamPairOf(result).substituteInfo[1].substitutePair.substitute = players[1]

\* C20: the substitute is appended to the squad whose rating sum is lower after
\* the greedy pass, and to team1 when the two sums are equal; teamWithSub names
\* that squad.
C20_SubstituteJoinsLowerSum ==
    (Returned /\ TeamPairOf(result).substituteInfo # Undefined) =>
        LET tp == TeamPairOf(result)
            info == tp.substituteInfo[1]
            sum1 == SumRatings(GreedySquad(tp, 1))
            sum2 == SumRatings(GreedySquad(tp, 2))
        IN  /\ Last(SquadOf(tp, info.teamWithSub)) = info.substitutePair.substitute
            /\ info.teamWithSub = 1 <=> sum1 <= sum2
            /\ info.teamWithSub = 2 <=> sum2 < sum1

C20_Witness ==
    /\ ReturnedBy("balanceTeams")
    /\ TeamPairOf(result).substituteInfo # Undefined
    /\ TeamPairOf(result).substituteInfo[1].teamWithSub = 1
    /\ SumRatings(GreedySquad(TeamPairOf(result), 1)) = 101
    /\ SumRatings(GreedySquad(TeamPairOf(result), 2)) = 101

\* the entry points that run the trial loop
TrialLoops == {"findBestTeamBalance", "findRandomizedTeamBalance"}

\* C21: in findBestTeamBalance and findRandomizedTeamBalance a step of the loop
\* either leaves bestBalance as it is or replaces it by a balance of strictly
\* lower ratingDifference (so the best difference never goes up and a tie never
\* replaces), and the ratingDifference held as best, and returned, is the least
\* of the ratingDifference values of the seed call and the trial calls so far.
C21_BestOnlyByStrictlyLower ==
    /\ [](/\ (op \in TrialLoops /\ pc = "loop") =>
                TeamPairOf(bestBalance).ratingDifference = minDifference[1]
          /\ (Returned /\ op \in TrialLoops) =>
                TeamPairOf(result).ratingDifference = minDifference[1])
    /\ [][(op \in TrialLoops /\ pc = "loop" /\ bestBalance' # bestBalance) =>
                TeamPairOf(bestBalance').ratingDifference
                    < TeamPairOf(bestBalance).ratingDifference]_vars

C21_Witness ==
    /\ ReturnedBy("findRandomizedTeamBalance")
    /\ i = 2
    /\ ratingVariation = 1
    /\ TeamPairOf(result).ratingDifference = minDifference[1]
    /\ TeamPairOf(result).ratingDifference = 97
    /\ \E k \in 1..Len(original) : original[k].rating = MaxRating
    /\ \E k \in 1..Len(original) : original[k].rating = MinRating

\* C22: findBestTeamBalance(players, 0) runs no trial and returns exactly
\* balanceTeams(players) of the unmodified input.
C22_ZeroIterations ==
    (op = "findBestTeamBalance" /\ iterations = 0 /\ error = "") =>
        /\ i = 0
        /\ pc \in {"loop", "done"}
        /\ players = original
        /\ bestBalance = <<BalanceTeams(original)>>
        /\ pc = "done" => result = <<BalanceTeams(original)>>

C22_Witness ==
    /\ ReturnedBy("findBestTeamBalance")
    /\ iterations = 0
    /\ Len(players) = 3
    /\ result = <<BalanceTeams(original)>>
    /\ TeamPairOf(result).ratingDifference = 99

\* createMultipleTeamPairs is past its guard
PairsRunning == op = "createMultipleTeamPairs" /\ pc \in {"loop", "done"} /\ error = ""

\* the ids at the 0-based positions from .. to - 1 of a pool
IdsAt(pool, from, to) == {pool[p].id : p \in (from + 1)..to}

\* C23: createMultipleTeamPairs with n players and pairCount k >= 1 cuts one
\* shuffled copy of the pool into contiguous chunks: chunk idx < k - 1 is the
\* positions [idx * floor(n/k), (idx + 1) * floor(n/k)), the last chunk runs
\* from (k - 1) * floor(n/k) to n, and the returned pair number idx holds
\* exactly the players of chunk number idx, in chunk order.
C23_ContiguousChunks ==
    (PairsRunning /\ pairCount >= 1) =>
        LET n == Len(players)
            k == pairCount
            size == n \div k
        IN  /\ Len(shuffled) = n
            /\ \A p \in 1..n : \E q \in 1..n : shuffled[q] = players[p]
            /\ Len(pairs) = i
            /\ pc = "done" => i = k
            /\ \A idx \in 0..(Len(pairs) - 1) :
                    LET placed == AllPlayers(pairs[idx + 1])
                        from == idx * size
                        to == IF idx = k - 1 THEN n ELSE (idx + 1) * size
                    IN  /\ Len(placed) = to - from
                        /\ idx < k - 1 => Len(placed) = size
                        /\ Ids(placed) = IdsAt(shuffled, from, to)
                        /\ \A a \in 1..Len(placed) :
                                placed[a].name = players[InputIndex(placed[a].id)].name

C23_Witness ==
    /\ PairsReturned
    /\ pairCount = 2
    /\ Len(players) = 5
    /\ shuffled[1] = players[5]
    /\ shuffled[5] = players[1]
    /\ Ids(AllPlayers(pairs[1])) = {shuffled[1].id, shuffled[2].id}
    /\ Ids(AllPlayers(pairs[2])) = {shuffled[3].id, shuffled[4].id, shuffled[5].id}

\* C29: for pairCount >= 1 and len(players) >= 2 * pairCount no chunk is
\* skipped and nothing is thrown: every iteration appends a TeamPair of at
\* least 2 players, and exactly pairCount TeamPairs are returned.
C29_ExactlyPairCountPairs ==
    (/\ op = "createMultipleTeamPairs"
     /\ pc \in {"loop", "done"}
     /\ pairCount >= 1
     /\ Len(players) >= 2 * pairCount) =>
        /\ error = ""
        /\ i <= pairCount
        /\ Len(pairs) = i
        /\ pc = "done" => Len(pairs) = pairCount
        /\ \A idx \in 1..Len(pairs) :
                /\ Len(AllPlayers(pairs[idx])) >= 2
                /\ pairs[idx].team1 # <<>>

C29_Witness ==
    /\ PairsReturned
    /\ pairCount = 3
    /\ Len(players) = 6
    /\ Len(pairs) = 3

\* C30: createMultipleTeamPairs with pairCount <= 0 throws nothing for any
\* pool, runs no iteration and returns an empty sequence.
C30_NonPositiveCount ==
    (op = "createMultipleTeamPairs" /\ pc \in {"loop", "done"} /\ pairCount <= 0) =>
        /\ error = ""
        /\ i = 0
        /\ pairs = <<>>
        /\ Len(shuffled) = Len(players)

C30_Witness ==
    /\ PairsReturned
    /\ pairCount = -1
    /\ Len(players) = 4
    /\ pairs = <<>>
    /\ PlacedPlayers(pairs) = <<>>

\* the k-th largest rating of a list, counted with repetitions: a function of
\* the multiset of its ratings
KthLargest(ps, k) ==
    CHOOSE v \in {ps[j].rating : j \in 1..Len(ps)} :
        /\ Cardinality({j \in 1..Len(ps) : ps[j].rating > v}) < k
        /\ k <= Cardinality({j \in 1..Len(ps) : ps[j].rating >= v})

\* the ratings of a list from the highest down, without the middle one when
\* their number is odd
RatingsToBalance(ps) ==
    LET n == Len(ps)
        middle == n \div 2 + 1
        kept == IF n % 2 = 1 THEN n - 1 ELSE n
    IN  [k \in 1..kept |-> KthLargest(ps, IF n % 2 = 1 /\ k >= middle THEN k + 1 ELSE k)]

\* the sum of team1 minus the sum of team2 after ratings, in this order, went
\* one by one to the squad with the lower sum, to team1 on equal sums
RECURSIVE SignedDifference(_)
SignedDifference(ratings) ==
    IF ratings = <<>> THEN 0
    ELSE LET d == SignedDifference(Front(ratings))
         IN  IF d <= 0 THEN d + Last(ratings) ELSE d - Last(ratings)

\* C25: the ratingDifference balanceTeams returns, and the substitute's rating
\* for an odd size, are functions of the multiset of the input ratings: every
\* reordering of the list gets the same two values, and the trials of
\* findRandomizedTeamBalance with ratingVariation 0 on ratings within 1..100,
\* which only reshuffle, never get below the seed's ratingDifference.
C25_OrderIndependent ==
    /\ ReturnedBy("balanceTeams") =>
            LET tp == TeamPairOf(result)
            IN  /\ tp.ratingDifference = Abs(SignedDifference(RatingsToBalance(players)))
                /\ IsOddNumber(players) =>
                        /\ tp.substituteInfo # Undefined
                        /\ tp.substituteInfo[1].substitutePair.substitute.rating
                                = KthLargest(players, Len(players) \div 2 + 1)
                /\ Len(players) \in PermutedSizes =>
                        \A reordered \in ShuffleArray(players) :
                            LET other == BalanceTeams(reordered)
                            IN  /\ other.ratingDifference = tp.ratingDifference
                                /\ other.substituteInfo = Undefined
                                        <=> tp.substituteInfo = Undefined
                                /\ other.substituteInfo # Undefined =>
                                        other.substituteInfo[1].substitutePair.substitute.rating
                                            = tp.substituteInfo[1].substitutePair.substitute.rating
    /\ (/\ op = "findRandomizedTeamBalance"
        /\ pc \in {"loop", "done"}
        /\ error = ""
        /\ ratingVariation = 0
        /\ \A k \in 1..Len(original) : original[k].rating \in MinRating..MaxRating) =>
            /\ minDifference = <<Abs(SignedDifference(RatingsToBalance(original)))>>
            /\ TeamPairOf(bestBalance).ratingDifference = minDifference[1]

C25_Witness ==
    /\ ReturnedBy("balanceTeams")
    /\ Len(players) = 5
    /\ players[1].rating = 0
    /\ players[5].rating = 100
    /\ TeamPairOf(result).ratingDifference = 98
    /\ \E reordered \in ShuffleArray(players) :
            /\ reordered[1] = players[5]
            /\ BalanceTeams(reordered).ratingDifference = 98
            /\ BalanceTeams(reordered).team1 # TeamPairOf(result).team1

\* C26: for every odd-sized input the returned ratingDifference is the
\* difference of the sums the two squads had before the substitute was appended,
\* the substitute is appended to the squad with the lower of these sums, and the
\* difference of the sums of the returned squads is
\* |ratingDifference - substitute.rating|.
C26_DifferenceWithoutSubstitute ==
    (ReturnedBy("balanceTeams") /\ IsOddNumber(players)) =>
        LET tp == TeamPairOf(result)
        IN  /\ tp.substituteInfo # Undefined
            /\ LET info == tp.substituteInfo[1]
                   substitute == info.substitutePair.substitute
                   own == SumRatings(GreedySquad(tp, info.teamWithSub))
                   other == SumRatings(OtherSquadOf(tp, info.teamWithSub))
               IN  /\ tp.ratingDifference = Abs(own - other)
                   /\ own <= other
                   /\ SumRatings(SquadOf(tp, info.teamWithSub)) = own + substitute.rating
                   /\ Abs(SumRatings(tp.team1) - SumRatings(tp.team2))
                        = Abs(tp.ratingDifference - substitute.rating)

C26_Witness ==
    /\ ReturnedBy("balanceTeams")
    /\ Len(players) = 5
    /\ TeamPairOf(result).substituteInfo # Undefined
    /\ TeamPairOf(result).substituteInfo[1].teamWithSub = 2
    /\ TeamPairOf(result).substituteInfo[1].substitutePair.substitute.rating = 99
    /\ TeamPairOf(result).ratingDifference = 1
    /\ SumRatings(TeamPairOf(result).team2) - SumRatings(TeamPairOf(result).team1) = 98

\* q is p or was handled before p by the greedy pass
UpTo(q, p) == q = p \/ Before(q, p)

\* the sum of the ratings of the players of a squad handled up to p
RECURSIVE SumUpTo(_, _)
SumUpTo(squad, p) ==
    IF squad = <<>> THEN 0
    ELSE SumUpTo(Front(squad), p) + (IF UpTo(Last(squad), p) THEN Last(squad).rating ELSE 0)

\* C27: when no rating is negative, after each assignment of the greedy pass
\* the two running sums differ by at most the largest rating assigned so far;
\* for an even-sized input ratingDifference is at most the largest input rating.
C27_GreedyDifferenceBounded ==
    (ReturnedBy("balanceTeams") /\ \A k \in 1..Len(players) : players[k].rating >= 0) =>
        LET tp == TeamPairOf(result)
            g1 == GreedySquad(tp, 1)
            g2 == GreedySquad(tp, 2)
            assigned == g1 \o g2
        IN  /\ \A a \in 1..Len(assigned) :
                    \E b \in 1..Len(assigned) :
                        /\ UpTo(assigned[b], assigned[a])
                        /\ Abs(SumUpTo(g1, assigned[a]) - SumUpTo(g2, assigned[a]))
                                <= assigned[b].rating
            /\ ~IsOddNumber(players) =>
                    \E k \in 1..Len(players) : tp.ratingDifference <= players[k].rating

C27_Witness ==
    /\ ReturnedBy("balanceTeams")
    /\ Len(players) = 4
    /\ players[2].rating = MaxRating
    /\ TeamPairOf(result).ratingDifference = MaxRating
    /\ Len(TeamPairOf(result).team2) = 3

\* C28: team1 is never empty; when every rating is at least 1 team2 is not
\* empty either; team2 is empty only when no player other than the substitute
\* has a rating above 0.
C28_SquadsNonEmpty ==
    ReturnedBy("balanceTeams") =>
        LET tp == TeamPairOf(result)
        IN  /\ tp.team1 # <<>>
            /\ (\A k \in 1..Len(players) : players[k].rating >= 1) => tp.team2 # <<>>
            /\ tp.team2 = <<>> =>
                    \A k \in 1..Len(GreedySquad(tp, 1)) : GreedySquad(tp, 1)[k].rating <= 0

C28_Witness ==
    /\ ReturnedBy("balanceTeams")
    /\ Len(players) = 4
    /\ TeamPairOf(result).team2 = <<>>
    /\ Len(TeamPairOf(result).team1) = 4
    /\ \A k \in 1..Len(players) : players[k].rating = 0

\* the best of a seed and of balanceTeams of the lists the trials drew, in order
RECURSIVE BestOver(_, _)
BestOver(seed, lists) ==
    IF lists = <<>> THEN seed
    ELSE KeepBest(BestOver(seed, Front(lists)), BalanceTeams(Last(lists)))

\* what the call of frame f returns when it runs alone and draws the same lists
RunAlone(f) ==
    IF f.fn = "balanceTeams"
    THEN BalanceTeams(f.arg)
    ELSE BestOver(BalanceTeams(f.arg), f.choices)

\* C24: when two calls of balanceTeams / findBestTeamBalance on different
\* lists run interleaved step by step, in any order, each returns what it
\* returns when run alone with the same random draws, and a findBestTeamBalance
\* call has run exactly its own number of trials.
C24_Reentrant ==
    \A c \in DOMAIN frames :
        frames[c].pc = "done" =>
            /\ frames[c].result = <<RunAlone(frames[c])>>
            /\ Len(frames[c].choices) = frames[c].iterations

C24_Witness ==
    /\ frames # <<>>
    /\ frames[1].pc = "done"
    /\ frames[2].pc = "done"
    /\ frames[1].interleaved
    /\ frames[2].interleaved
    /\ frames[1].fn = "findBestTeamBalance"
    /\ frames[2].fn = "balanceTeams"
    /\ Len(frames[1].choices) = 1
    /\ frames[1].result = <<BalanceTeams(frames[1].choices[1])>>
    /\ frames[1].result # <<BalanceTeams(frames[1].arg)>>
    /\ frames[2].result = <<BalanceTeams(frames[2].arg)>>
    /\ Len(frames[2].arg) = 3

====
